---- MODULE Spec2Model ----
(***************************************************************************)
(* Model of the GolfV2 bay-utilisation scripts.                            *)
(*                                                                         *)
(*   src/golf_scraper.py : bookings_from_label (status label -> booked     *)
(*                         bays)                                           *)
(*   src/scarper_api.py  : cache_get (JSON disk cache), fetch_range        *)
(*                         (paginated fetch + normalisation), classify_    *)
(*                         season, main (hour / day / day-of-week / season *)
(*                         rollups)                                        *)
(*                                                                         *)
(* Three specifications share the variables; each leaves the others'       *)
(* variables untouched:                                                    *)
(*   SpecLabel : a label is built, then bookings_from_label is applied     *)
(*   SpecCache : any sequence of cache_get calls against a changing server *)
(*   Spec      : one run of scarper_api.main (fetch pages, aggregate)      *)
(***************************************************************************)
EXTENDS Integers, Sequences, FiniteSets, TLC

VARIABLES
    label,      \* SpecLabel: the status text handed to bookings_from_label
    nparts,     \* SpecLabel: how many pieces the text was put together from
    booked,     \* SpecLabel: the value bookings_from_label returned
    lpc,        \* SpecLabel: "build" | "done"
    cache,      \* SpecCache: CACHEDIR, file name -> stored JSON document
    ncalls,     \* SpecCache: number of cache_get calls made so far
    last,       \* SpecCache: what the last cache_get call did
    stored,     \* SpecCache: history, the request and document of every write
    rows,       \* Spec: fetch_range's rows list (raw API records)
    pc,         \* Spec: "fetch" | "done" | "aborted"
    out         \* Spec: the tables main wrote (df_hour, df_day, dow_avg, season_avg)

vars == <<label, nparts, booked, lpc, cache, ncalls, last, stored, rows, pc, out>>
labelVars == <<label, nparts, booked, lpc>>
cacheVars == <<cache, ncalls, last, stored>>
mainVars == <<rows, pc, out>>

(***************************************************************************)
(* Bounds                                                                  *)
(***************************************************************************)
MaxParts == 2
MaxCalls == 3
MaxRows == 2

(***************************************************************************)
(* Generic helpers                                                         *)
(***************************************************************************)
Range(s) == {s[i] : i \in 1..Len(s)}

RECURSIVE SumSeq(_)
SumSeq(s) == IF s = <<>> THEN 0 ELSE Head(s) + SumSeq(Tail(s))

(***************************************************************************)
(* golf_scraper.py : bookings_from_label                                   *)
(*                                                                         *)
(* A text is a sequence of tokens.  A digit, "/", " ", "(", ")" and "g"    *)
(* (any other letter) are single characters; "open", "waitlist" and their  *)
(* upper-case spellings stand for the words' characters.  No token shares  *)
(* a letter with another, so substring search on tokens is substring       *)
(* search on characters.                                                   *)
(***************************************************************************)
DigitChars == {"0", "1", "2", "3", "4", "5", "6", "7", "8", "9"}

DigitVal(c) ==
    CASE c = "0" -> 0 [] c = "1" -> 1 [] c = "2" -> 2 [] c = "3" -> 3
      [] c = "4" -> 4 [] c = "5" -> 5 [] c = "6" -> 6 [] c = "7" -> 7
      [] c = "8" -> 8 [] c = "9" -> 9

\* str.lower(), token by token
LowerTok(c) ==
    CASE c \in {"Open", "OPEN"} -> "open"
      [] c \in {"Waitlist", "WAITLIST"} -> "waitlist"
      [] OTHER -> c

Lower(text) == [i \in 1..Len(text) |-> LowerTok(text[i])]

\* `needle in text`
Contains(text, needle) ==
    \E i \in 1..(Len(text) - Len(needle) + 1) :
        SubSeq(text, i, i + Len(needle) - 1) = needle

\* \d+ from position i, greedy: the position after the run (i when no digit)
RECURSIVE DigitsEnd(_, _)
DigitsEnd(text, i) ==
    IF i <= Len(text) /\ text[i] \in DigitChars THEN DigitsEnd(text, i + 1) ELSE i

\* \s* from position i: the position after the white space
RECURSIVE SkipWs(_, _)
SkipWs(text, i) ==
    IF i <= Len(text) /\ text[i] = " " THEN SkipWs(text, i + 1) ELSE i

\* int() of the digits text[i..j-1]
RECURSIVE ToInt(_, _, _)
ToInt(text, i, j) ==
    IF i >= j THEN 0 ELSE ToInt(text, i, j - 1) * 10 + DigitVal(text[j - 1])

NoMatch == [found |-> FALSE, open_cnt |-> 0, total |-> 0]

\* (\d+)\s*/\s*(\d+)\s*open anchored at position i.  Giving a digit back
\* never helps (the next character is then a digit, and neither \s, "/" nor
\* "open" matches it), so the greedy runs decide the match.
MatchAt(text, i) ==
    LET a == DigitsEnd(text, i)
        b == SkipWs(text, a)
        c == SkipWs(text, b + 1)
        d == DigitsEnd(text, c)
        e == SkipWs(text, d)
    IN  IF /\ a > i
           /\ b <= Len(text) /\ text[b] = "/"
           /\ d > c
           /\ e <= Len(text) /\ text[e] = "open"
        THEN [found |-> TRUE, open_cnt |-> ToInt(text, i, a), total |-> ToInt(text, c, d)]
        ELSE NoMatch

\* re.search: the match at the leftmost position that has one
RECURSIVE SearchFrom(_, _)
SearchFrom(text, i) ==
    IF i > Len(text) THEN NoMatch
    ELSE IF MatchAt(text, i).found THEN MatchAt(text, i)
    ELSE SearchFrom(text, i + 1)

re_search(text) == SearchFrom(text, 1)

PrivateEventText == <<"(", "1", "/", "2", " ", "open", ")">>

\* total == 4 branch returning the open count itself (a slip of 4 - open_cnt)
total4_branch_mut(open_cnt) == open_cnt

total4_branch(open_cnt) == 4 - open_cnt

\* "waitlist" test placed after the pattern test (the priority lost)
has_waitlist_mut(text) == Contains(text, <<"waitlist">>) /\ ~re_search(text).found

has_waitlist(text) == Contains(text, <<"waitlist">>)

\* elif total == 2 branch dropped
total_other_branch_mut(total) == 0

total_other_branch(total) == IF total = 2 THEN 2 ELSE 0

bookings_from_label(raw) ==
    LET text == Lower(raw)
        m == re_search(text)
    IN  IF has_waitlist(text) THEN 4
        ELSE IF ~m.found
             THEN IF Contains(text, PrivateEventText) THEN 2 ELSE 0
        ELSE IF m.total = 4 THEN total4_branch(m.open_cnt)
        ELSE total_other_branch(m.total)

\* The pieces a label is put together from: every single token, every
\* "<o>/<t> Open" with one-digit counts, two spaced spellings and the
\* parenthesised private-event text.
SingleToks ==
    {"0", "1", "2", "3", "4", "5", "/", " ", "(", ")", "g",
     "open", "Open", "waitlist", "Waitlist", "WAITLIST"}

Fractions ==
    {<<o, "/", t, " ", "Open">> : o \in {"0", "1", "2", "3", "4", "5"}, t \in {"2", "3", "4"}}

LabelParts ==
    {<<c>> : c \in SingleToks} \cup Fractions \cup
    { <<"3", " ", "/", " ", "4", "open">>,
      <<"1", "/", "2", "OPEN">>,
      <<"(", "1", "/", "2", " ", "Open", ")">> }

LabelInit ==
    /\ label = <<>>
    /\ nparts = 0
    /\ booked = 0
    /\ lpc = "build"

AppendPart ==
    /\ lpc = "build"
    /\ nparts < MaxParts
    /\ \E p \in LabelParts : label' = label \o p
    /\ nparts' = nparts + 1
    /\ UNCHANGED <<booked, lpc, cacheVars, mainVars>>

Interpret ==
    /\ lpc = "build"
    /\ booked' = bookings_from_label(label)
    /\ lpc' = "done"
    /\ UNCHANGED <<label, nparts, cacheVars, mainVars>>

(***************************************************************************)
(* scarper_api.py : cache_get                                              *)
(*                                                                         *)
(* A URL and a key are token sequences; params is None (<<>>) or a dict,   *)
(* the sequence of its (name, value) items in insertion order.             *)
(***************************************************************************)
BASE_URL == <<"https://golfv2.marianatek.com/api/customer/v1/classes">>

\* a "next" link of the API: the endpoint with its query already in the URL
NextUrl == BASE_URL \o <<"?", "region", "=", "48541">>

Urls == {BASE_URL, NextUrl}

ParamNames == {"page_size", "region"}

ParamValue(n) == IF n = "page_size" THEN "500" ELSE "48541"

\* str order of the parameter names
NameRank(n) == IF n = "page_size" THEN 1 ELSE 2

\* every dict over ParamNames, in every insertion order (None is <<>>)
ParamDicts ==
    {<<>>} \cup {<< <<n, ParamValue(n)>> >> : n \in ParamNames}
           \cup {<< <<n, ParamValue(n)>>, <<m, ParamValue(m)>> >> :
                    <<n, m>> \in {q \in ParamNames \X ParamNames : q[1] # q[2]}}

\* sorted(params.items()): insertion sort on the names
RECURSIVE InsertItem(_, _)
InsertItem(sorted, it) ==
    IF sorted = <<>> THEN <<it>>
    ELSE IF NameRank(it[1]) <= NameRank(Head(sorted)[1]) THEN <<it>> \o sorted
    ELSE <<Head(sorted)>> \o InsertItem(Tail(sorted), it)

RECURSIVE SortedItems(_)
SortedItems(items) ==
    IF items = <<>> THEN <<>>
    ELSE InsertItem(SortedItems(SubSeq(items, 1, Len(items) - 1)), items[Len(items)])

\* the items left in insertion order (sorted() forgotten)
items_for_key_mut(params) == params

items_for_key(params) == SortedItems(params)

\* urllib.parse.urlencode of a list of pairs: n=v joined by "&"
RECURSIVE urlencode(_)
urlencode(items) ==
    IF items = <<>> THEN <<>>
    ELSE <<Head(items)[1], "=", Head(items)[2]>>
         \o (IF Len(items) > 1 THEN <<"&">> ELSE <<>>)
         \o urlencode(Tail(items))

\* urllib.parse.quote_plus, token by token: reserved characters are escaped
QuoteTok(c) ==
    CASE c = "?" -> "%3F" [] c = "=" -> "%3D" [] c = "&" -> "%26"
      [] c = "https://golfv2.marianatek.com/api/customer/v1/classes"
           -> "https%3A%2F%2Fgolfv2.marianatek.com%2Fapi%2Fcustomer%2Fv1%2Fclasses"
      [] OTHER -> c

quote_plus(key) == [i \in 1..Len(key) |-> QuoteTok(key[i])]

cache_key(url, params) ==
    IF params # <<>> THEN url \o <<"?">> \o urlencode(items_for_key(params)) ELSE url

cache_fname(url, params) == quote_plus(cache_key(url, params)) \o <<".json">>

\* the documents the server may answer with (it may answer differently each time)
Docs == {"docA", "docB"}

\* a request's identity: the URL and the set of its parameters
Ident(url, params) == <<url, Range(params)>>

NoCall == [ident |-> <<>>, params |-> <<>>, http |-> FALSE, returned |-> "none"]

CacheInit ==
    /\ cache = <<>>
    /\ ncalls = 0
    /\ last = NoCall
    /\ stored = {}

\* fname.exists(): the stored document is loaded, no request is made
CacheHit(url, params) ==
    LET fname == cache_fname(url, params)
    IN  /\ fname \in DOMAIN cache
        /\ last' = [ident |-> Ident(url, params), params |-> params, http |-> FALSE,
                     returned |-> cache[fname]]
        /\ UNCHANGED <<cache, stored>>

\* a miss whose request succeeds: the answer is written and returned
CacheMissStore(url, params, doc) ==
    LET fname == cache_fname(url, params)
    IN  /\ fname \notin DOMAIN cache
        /\ cache' = (fname :> doc) @@ cache
        /\ stored' = stored \cup {[ident |-> Ident(url, params), params |-> params,
                                    doc |-> doc]}
        /\ last' = [ident |-> Ident(url, params), params |-> params, http |-> TRUE,
                     returned |-> doc]

\* a miss whose request fails: requests.get / raise_for_status raises
CacheMissRaise(url, params) ==
    LET fname == cache_fname(url, params)
    IN  /\ fname \notin DOMAIN cache
        /\ last' = [ident |-> Ident(url, params), params |-> params, http |-> TRUE,
                     returned |-> "raised"]
        /\ UNCHANGED <<cache, stored>>

cache_get ==
    /\ ncalls < MaxCalls
    /\ ncalls' = ncalls + 1
    /\ \E url \in Urls, params \in ParamDicts :
          \/ CacheHit(url, params)
          \/ \E doc \in Docs : CacheMissStore(url, params, doc)
          \/ CacheMissRaise(url, params)
    /\ UNCHANGED <<labelVars, mainVars>>

(***************************************************************************)
(* scarper_api.py : calendar arithmetic behind pd.to_datetime, tz_convert, *)
(* .dt.date and .dt.day_name().  An instant is a number of hours since     *)
(* 1970-01-01T00:00Z; a date is a record [y, m, d].                        *)
(***************************************************************************)
days_from_civil(y, m, d) ==
    LET yy  == IF m <= 2 THEN y - 1 ELSE y
        era == yy \div 400
        yoe == yy - era * 400
        mp  == IF m > 2 THEN m - 3 ELSE m + 9
        doy == (153 * mp + 2) \div 5 + d - 1
        doe == yoe * 365 + yoe \div 4 - yoe \div 100 + doy
    IN  era * 146097 + doe - 719468

civil_from_days(z) ==
    LET zz  == z + 719468
        era == zz \div 146097
        doe == zz - era * 146097
        yoe == (doe - doe \div 1460 + doe \div 36524 - doe \div 146096) \div 365
        doy == doe - (365 * yoe + yoe \div 4 - yoe \div 100)
        mp  == (5 * doy + 2) \div 153
        d   == doy - (153 * mp + 2) \div 5 + 1
        m   == IF mp < 10 THEN mp + 3 ELSE mp - 9
        y   == yoe + era * 400
    IN  [y |-> IF m <= 2 THEN y + 1 ELSE y, m |-> m, d |-> d]

\* 0 = Monday ... 6 = Sunday (1970-01-01 was a Thursday)
weekday(days) == (days + 3) % 7

dow_order == <<"Monday", "Tuesday", "Wednesday", "Thursday", "Friday", "Saturday", "Sunday">>

day_name(days) == dow_order[weekday(days) + 1]

\* pd.to_datetime(start_datetime, utc=True): ISO fields -> instant
to_datetime(iso) == days_from_civil(iso.y, iso.m, iso.d) * 24 + iso.h

\* the n-th Sunday of month m of year y, as a day number
NthSunday(y, m, n) ==
    LET first == days_from_civil(y, m, 1)
    IN  first + ((6 - weekday(first)) % 7) + 7 * (n - 1)

\* America/New_York since 2007: EDT (UTC-4) from the second Sunday of March
\* 02:00 EST to the first Sunday of November 02:00 EDT, EST (UTC-5) otherwise
utc_offset(instant) ==
    LET y == civil_from_days(instant \div 24).y
        dst_start == NthSunday(y, 3, 2) * 24 + 7
        dst_end   == NthSunday(y, 11, 1) * 24 + 6
    IN  IF dst_start <= instant /\ instant < dst_end THEN -4 ELSE -5

\* no conversion: the wall clock stays UTC
tz_convert_mut(instant) == [utc |-> instant, wall |-> instant]

\* .dt.tz_convert(EASTERN): the same instant with the Eastern wall clock
tz_convert(instant) == [utc |-> instant, wall |-> instant + utc_offset(instant)]

\* .dt.date of a zone-aware timestamp: the wall clock's calendar date
dt_date(ts) == civil_from_days(ts.wall \div 24)

dt_day_name(ts) == day_name(ts.wall \div 24)

classify_season(month) ==
    IF month \in {12, 1, 2} THEN "Winter"
    ELSE IF month \in {3, 4, 5} THEN "Spring"
    ELSE IF month \in {6, 7, 8} THEN "Summer"
    ELSE "Fall"

season_order == <<"Winter", "Spring", "Summer", "Fall">>

(***************************************************************************)
(* Exact fractions for the float quotients: <<n, d>> in lowest terms with  *)
(* d > 0.  A zero denominator gives what float division gives.             *)
(***************************************************************************)
Abs(x) == IF x < 0 THEN -x ELSE x

RECURSIVE Gcd(_, _)
Gcd(a, b) == IF b = 0 THEN a ELSE Gcd(b, a % b)

Frac(n, d) ==
    IF d = 0 THEN (IF n = 0 THEN "NaN" ELSE IF n > 0 THEN "inf" ELSE "-inf")
    ELSE LET g == Gcd(Abs(n), Abs(d))
             sg == IF d < 0 THEN -1 ELSE 1
         IN  <<(sg * n) \div g, (sg * d) \div g>>

FracAdd(a, b) == Frac(a[1] * b[2] + b[1] * a[2], a[2] * b[2])

RECURSIVE FracSum(_)
FracSum(s) == IF s = <<>> THEN <<0, 1>> ELSE FracAdd(Head(s), FracSum(Tail(s)))

\* Series.mean() of a non-empty list of fractions
FracMean(s) == LET t == FracSum(s) IN Frac(t[1], t[2] * Len(s))

(***************************************************************************)
(* DataFrame.groupby: keys, sums and means.  A column is a sequence; a key *)
(* is ordered by its rank, a tuple of integers compared lexicographically. *)
(***************************************************************************)
RECURSIVE LexLess(_, _)
LexLess(a, b) ==
    IF a = <<>> THEN FALSE
    ELSE IF Head(a) # Head(b) THEN Head(a) < Head(b)
    ELSE LexLess(Tail(a), Tail(b))

\* a set of <<rank, key>> pairs as the sequence of its pairs in rank order
RECURSIVE SortPairs(_)
SortPairs(S) ==
    IF S = {} THEN <<>>
    ELSE LET lo == CHOOSE p \in S : \A q \in S : ~LexLess(q[1], p[1])
         IN  <<lo>> \o SortPairs(S \ {lo})

\* the distinct elements of a sequence in order of first appearance
RECURSIVE Dedup(_)
Dedup(s) ==
    IF s = <<>> THEN <<>>
    ELSE LET front == Dedup(SubSeq(s, 1, Len(s) - 1))
             x == s[Len(s)]
         IN  IF x \in Range(front) THEN front ELSE Append(front, x)

\* groupby(..., sort=False): groups in order of first appearance
group_keys_mut(pairs) == [i \in 1..Len(Dedup(pairs)) |-> Dedup(pairs)[i][2]]

\* groupby(...) with its default sort=True: the distinct keys, sorted.
\* pairs is the key column, each key with its rank.
group_keys(pairs) ==
    LET sorted == SortPairs(Range(pairs))
    IN  [i \in 1..Len(sorted) |-> sorted[i][2]]

\* the values of the rows whose key is k, in row order
RECURSIVE PickWhere(_, _, _)
PickWhere(vals, keys, k) ==
    IF vals = <<>> THEN <<>>
    ELSE (IF Head(keys) = k THEN <<Head(vals)>> ELSE <<>>)
         \o PickWhere(Tail(vals), Tail(keys), k)

Col(df, f) == [i \in 1..Len(df) |-> df[i][f]]

\* the group's last value instead of its sum (rows overwriting each other)
agg_sum_mut(vals) == vals[Len(vals)]

\* .agg(("...", "sum")) of one group
agg_sum(vals) == SumSeq(vals)

(***************************************************************************)
(* scarper_api.py : fetch_range (normalisation) and main (rollups)         *)
(***************************************************************************)
\* location names in str order
LocOrder == <<"Flatiron", "Tribeca">>

Locations == Range(LocOrder)

LocRank(loc) == CHOOSE i \in 1..Len(LocOrder) : LocOrder[i] = loc

\* day names in str order, as groupby sorts them
DowAlpha(dow) ==
    CASE dow = "Friday" -> 1 [] dow = "Monday" -> 2 [] dow = "Saturday" -> 3
      [] dow = "Sunday" -> 4 [] dow = "Thursday" -> 5 [] dow = "Tuesday" -> 6
      [] dow = "Wednesday" -> 7

\* the code of a day name in pd.Categorical(categories=dow_order, ordered=True)
DowCode(dow) == CHOOSE i \in 1..7 : dow_order[i] = dow

\* fetch_range lines 74-81: one raw API record -> one row of df
normalize(r) ==
    LET start_dt_utc == to_datetime(r.start_datetime)
        bays_booked  == r.capacity - r.available_spot_count
    IN  [location    |-> r.location,
         capacity    |-> r.capacity,
         bays_booked |-> bays_booked,
         util        |-> Frac(bays_booked, r.capacity),
         start_dt    |-> tz_convert(start_dt_utc)]

fetch_range_df(raw) == [i \in 1..Len(raw) |-> normalize(raw[i])]

\* main line 107
hour_utilisation(sold, offered) == Frac(sold, offered)

\* main lines 103-107: df_hour
hour_table(df) ==
    LET kcol == [i \in 1..Len(df) |->
                   <<df[i].location, df[i].start_dt>>]
        pairs == [i \in 1..Len(df) |->
                   << <<LocRank(df[i].location), df[i].start_dt.utc>>, kcol[i] >>]
        keys == group_keys(pairs)
    IN  [g \in 1..Len(keys) |->
           LET offered == agg_sum(PickWhere(Col(df, "capacity"), kcol, keys[g]))
               sold    == agg_sum(PickWhere(Col(df, "bays_booked"), kcol, keys[g]))
           IN  [location          |-> keys[g][1],
                start_dt          |-> keys[g][2],
                bay_hours_offered |-> offered,
                bay_hours_sold    |-> sold,
                utilisation       |-> hour_utilisation(sold, offered)]]

\* utilisation as the mean of the hours' utilisations
day_utilisation_mut(sold, offered, utils) == FracMean(utils)

\* main line 117
day_utilisation(sold, offered, utils) == Frac(sold, offered)

\* main lines 111-117: df_day
day_table(df_hour) ==
    LET kcol == [i \in 1..Len(df_hour) |->
                   <<df_hour[i].location, dt_date(df_hour[i].start_dt),
                     dt_day_name(df_hour[i].start_dt)>>]
        pairs == [i \in 1..Len(df_hour) |->
                   << <<LocRank(kcol[i][1]), kcol[i][2].y, kcol[i][2].m, kcol[i][2].d,
                        DowAlpha(kcol[i][3])>>, kcol[i] >>]
        keys == group_keys(pairs)
    IN  [g \in 1..Len(keys) |->
           LET offered == agg_sum(PickWhere(Col(df_hour, "bay_hours_offered"), kcol, keys[g]))
               sold    == agg_sum(PickWhere(Col(df_hour, "bay_hours_sold"), kcol, keys[g]))
           IN  [location      |-> keys[g][1],
                date_local    |-> keys[g][2],
                dow           |-> keys[g][3],
                hours_offered |-> offered,
                hours_sold    |-> sold,
                utilisation   |-> day_utilisation(sold, offered,
                                     PickWhere(Col(df_hour, "utilisation"), kcol, keys[g]))]]

\* main lines 125-127: sort_values(["location", "dow"]) on the categorical
dow_sort_rank(loc, dow) == <<LocRank(loc), DowCode(dow)>>

\* main lines 121-127: dow_avg
dow_table(df_day) ==
    LET kcol == [i \in 1..Len(df_day) |-> <<df_day[i].location, df_day[i].dow>>]
        pairs == [i \in 1..Len(df_day) |->
                   << <<LocRank(kcol[i][1]), DowAlpha(kcol[i][2])>>, kcol[i] >>]
        keys == group_keys(pairs)
        grouped == [g \in 1..Len(keys) |->
                      [location        |-> keys[g][1],
                       dow             |-> keys[g][2],
                       avg_utilisation |->
                           FracMean(PickWhere(Col(df_day, "utilisation"), kcol, keys[g]))]]
        sorted == SortPairs({<<dow_sort_rank(grouped[g].location, grouped[g].dow), grouped[g]>> :
                               g \in 1..Len(grouped)})
    IN  [g \in 1..Len(sorted) |-> sorted[g][2]]

\* main lines 131-135: the season column of df_day
season_of(date_local) == classify_season(date_local.m)

\* main lines 131-135: df_day with its season column
with_season(df_day) ==
    [i \in 1..Len(df_day) |->
       [location      |-> df_day[i].location,
        date_local    |-> df_day[i].date_local,
        dow           |-> df_day[i].dow,
        hours_offered |-> df_day[i].hours_offered,
        hours_sold    |-> df_day[i].hours_sold,
        utilisation   |-> df_day[i].utilisation,
        season        |-> season_of(df_day[i].date_local)]]

\* main lines 137, 153: season_avg of every location; the categorical
\* groupby lists all four seasons, an empty one with a NaN mean
season_table(df_day) ==
    LET lpairs == [i \in 1..Len(df_day) |->
                     << <<LocRank(df_day[i].location)>>, df_day[i].location >>]
        locs == group_keys(lpairs)
        kcol == [i \in 1..Len(df_day) |-> <<df_day[i].location, df_day[i].season>>]
    IN  [n \in 1..(4 * Len(locs)) |->
           LET loc    == locs[(n - 1) \div 4 + 1]
               season == season_order[((n - 1) % 4) + 1]
               utils  == PickWhere(Col(df_day, "utilisation"), kcol, <<loc, season>>)
           IN  [location    |-> loc,
                season      |-> season,
                utilisation |-> IF utils = <<>> THEN "NaN" ELSE FracMean(utils)]]

\* main lines 100-162: the tables of one run
main_tables(raw) ==
    LET df      == fetch_range_df(raw)
        df_hour == hour_table(df)
        df_day  == day_table(df_hour)
        seasoned == with_season(df_day)
    IN  [df         |-> df,
         df_hour    |-> df_hour,
         df_day     |-> seasoned,
         dow_avg    |-> dow_table(df_day),
         season_avg |-> season_table(seasoned)]

\* The raw records the API may return
IsoStarts ==
    { [y |-> 2022, m |-> 11, d |-> 28, h |-> 15],    \* Mon 10:00 EST
      [y |-> 2022, m |-> 11, d |-> 28, h |-> 16],    \* Mon 11:00 EST
      [y |-> 2022, m |-> 12, d |-> 1,  h |-> 3],     \* Wed 30 Nov 22:00 EST
      [y |-> 2022, m |-> 12, d |-> 5,  h |-> 15],    \* Mon 10:00 EST
      [y |-> 2022, m |-> 11, d |-> 25, h |-> 15],    \* Fri 10:00 EST
      [y |-> 2023, m |-> 6,  d |-> 1,  h |-> 4] }    \* Thu 1 Jun 00:00 EDT

\* <<capacity, available_spot_count>>: 1 and 2 bays booked, 3 booked, and
\* more spots reported available than the slot has
Seats == { <<4, 3>>, <<2, 0>> }

MoreSeats == { <<4, 1>>, <<4, 5>> }

ApiRecord(l, t, c) ==
    [location |-> l, start_datetime |-> t, capacity |-> c[1], available_spot_count |-> c[2]]

FirstStart == [y |-> 2022, m |-> 11, d |-> 28, h |-> 15]

\* every start at one location, all seat counts at its first start, and
\* records of the same start at the other location
RawRecords ==
    { ApiRecord("Tribeca", t, c) : t \in IsoStarts, c \in Seats } \cup
    { ApiRecord("Tribeca", FirstStart, c) : c \in MoreSeats } \cup
    { ApiRecord("Flatiron", FirstStart, c) : c \in Seats }

NoTables == [df |-> <<>>, df_hour |-> <<>>, df_day |-> <<>>, dow_avg |-> <<>>, season_avg |-> <<>>]

MainInit ==
    /\ rows = <<>>
    /\ pc = "fetch"
    /\ out = NoTables

\* fetch_range lines 65-72, one turn of the loop whose cache_get returns:
\* the page's results are appended (a page carries one record here)
FetchPage ==
    /\ pc = "fetch"
    /\ Len(rows) < MaxRows
    /\ \E r \in RawRecords : rows' = Append(rows, r)
    /\ UNCHANGED <<pc, out, labelVars, cacheVars>>

\* fetch_range line 66 when cache_get raises: nothing catches it, neither in
\* fetch_range nor in main, and the run ends with no table written
FetchRaise ==
    /\ pc = "fetch"
    /\ Len(rows) < MaxRows
    /\ pc' = "aborted"
    /\ UNCHANGED <<rows, out, labelVars, cacheVars>>

\* j["next"] is None after at least one page: fetch_range returns and main
\* computes and writes the tables
Aggregate ==
    /\ pc = "fetch"
    /\ rows # <<>>
    /\ out' = main_tables(rows)
    /\ pc' = "done"
    /\ UNCHANGED <<rows, labelVars, cacheVars>>

(***************************************************************************)
(* Specifications                                                          *)
(***************************************************************************)
Init == LabelInit /\ CacheInit /\ MainInit

Next == FetchPage \/ FetchRaise \/ Aggregate

Spec == Init /\ [][Next]_vars

NextLabel == AppendPart \/ Interpret

SpecLabel == Init /\ [][NextLabel]_vars

NextCache == cache_get

SpecCache == Init /\ [][NextCache]_vars

(***************************************************************************)
(* Properties of bookings_from_label (SpecLabel)                           *)
(***************************************************************************)
\* the per-slot capacity the scraper assumes
BAYS == 4

OpenWords == {"open", "Open", "OPEN"}

WaitlistWords == {"waitlist", "Waitlist", "WAITLIST"}

MentionsWaitlist(text) == \E i \in 1..Len(text) : text[i] \in WaitlistWords

\* the last position j >= i - 1 such that text[i..j] lies in class
RunEnd(text, i, class) ==
    IF i > Len(text) THEN i - 1
    ELSE CHOOSE j \in (i - 1)..Len(text) :
            /\ \A k \in i..j : text[k] \in class
            /\ j = Len(text) \/ text[j + 1] \notin class

\* the occurrences of "<open>/<total> open" in a text, white space allowed
\* around "/" and before "open", each number a whole run of digits
Occurrences(text) ==
    { o \in { LET a == RunEnd(text, i, DigitChars)
                  b == RunEnd(text, a + 1, {" "}) + 1
                  c == RunEnd(text, b + 1, {" "}) + 1
                  d == RunEnd(text, c, DigitChars)
                  e == RunEnd(text, d + 1, {" "}) + 1
              IN  [at    |-> i,
                   ok    |-> /\ a >= i
                             /\ i = 1 \/ text[i - 1] \notin DigitChars
                             /\ b <= Len(text) /\ text[b] = "/"
                             /\ d >= c
                             /\ e <= Len(text) /\ text[e] \in OpenWords,
                   open  |-> ToInt(text, i, a + 1),
                   total |-> IF c <= Len(text) THEN ToInt(text, c, d + 1) ELSE 0]
              : i \in 1..Len(text) } : o.ok }

Leftmost(occ) == CHOOSE o \in occ : \A q \in occ : o.at <= q.at

Text34 == <<"3", "/", "4", " ", "Open">>
Text04 == <<"0", "/", "4", " ", "Open">>
Text44 == <<"4", "/", "4", " ", "Open">>
Text12 == <<"1", "/", "2", " ", "Open">>
Text02 == <<"0", "/", "2", " ", "Open">>
Text13 == <<"1", "/", "3", " ", "Open">>

\* C1 as stated: for every label without "waitlist" that contains an
\* "<open>/<total> open" with total 4, the result is total - open of that
\* occurrence.
C1_EveryOccurrenceOfFour ==
    (lpc = "done" /\ ~MentionsWaitlist(label)) =>
        \A o \in Occurrences(label) : o.total = 4 => booked = 4 - o.open

\* C1 amended: for every label without "waitlist" whose leftmost
\* "<open>/<total> open" occurrence has total 4, the result is 4 minus that
\* occurrence's open count; "3/4 Open" gives 1, "0/4 Open" 4, "4/4 Open" 0.
C1_LeftmostOccurrenceOfFour ==
    lpc = "done" =>
        /\ (~MentionsWaitlist(label) /\ Occurrences(label) # {}
              /\ Leftmost(Occurrences(label)).total = 4)
             => booked = 4 - Leftmost(Occurrences(label)).open
        /\ label = Text34 => booked = 1
        /\ label = Text04 => booked = 4
        /\ label = Text44 => booked = 0

C1_Witness == lpc = "done" /\ label = Text34 \o Text12 /\ booked = 1

C9_TwoOnlyForPrivateEventText ==
    (lpc = "done" /\ ~MentionsWaitlist(label)
       /\ \A o \in Occurrences(label) : o.total # 4)
    => booked = (IF Contains(Lower(label), PrivateEventText) THEN 2 ELSE 0)

\* C9 amended: for a label without "waitlist" and without a pattern of total
\* 4, the result is 2 exactly when the leftmost "<open>/<total> open"
\* occurrence has total 2, and 0 otherwise; "(1/2 Open)" and "0/2 Open" give
\* 2, "g" and "1/3 Open" give 0.
C9_TwoForLeftmostTotalTwo ==
    lpc = "done" =>
        /\ (~MentionsWaitlist(label) /\ \A o \in Occurrences(label) : o.total # 4)
             => booked = (IF Occurrences(label) # {}
                             /\ Leftmost(Occurrences(label)).total = 2
                          THEN 2 ELSE 0)
        /\ label = <<"(">> \o Text12 \o <<")">> => booked = 2
        /\ label = Text02 => booked = 2
        /\ label = Text13 => booked = 0
        /\ label = <<"g">> => booked = 0

C9_Witness == lpc = "done" /\ label = Text02 /\ booked = 2

(***************************************************************************)
(* Properties of cache_get (SpecCache)                                     *)
(***************************************************************************)
\* C5: once a document is stored for a request identity (the URL and the
\* set of its parameters), every later cache_get of that identity returns it
\* with no HTTP request, and no stored entry is ever changed or removed.
C5_HitShortCircuits ==
    [][ /\ \A s \in stored :
              last'.ident = s.ident => (~last'.http /\ last'.returned = s.doc)
        /\ \A f \in DOMAIN cache : f \in DOMAIN cache' /\ cache'[f] = cache[f]
      ]_vars

\* a hit for parameters given in another order than when they were stored
C5_Witness ==
    /\ ~last.http
    /\ \E s \in stored :
         /\ s.ident = last.ident
         /\ s.params # last.params
         /\ last.returned = s.doc

(***************************************************************************)
(* Properties of one run of main (Spec)                                    *)
(***************************************************************************)
RECURSIVE SumOver(_, _)
SumOver(f, S) ==
    IF S = {} THEN 0
    ELSE LET i == CHOOSE x \in S : TRUE IN f[i] + SumOver(f, S \ {i})

RECURSIVE FracSumOver(_, _)
FracSumOver(f, S) ==
    IF S = {} THEN <<0, 1>>
    ELSE LET i == CHOOSE x \in S : TRUE IN FracAdd(f[i], FracSumOver(f, S \ {i}))

MeanOver(f, S) ==
    IF S = {} THEN "NaN"
    ELSE LET t == FracSumOver(f, S) IN Frac(t[1], t[2] * Cardinality(S))

\* booked over capacity, summed over the records S of out.df
PooledUtilisation(S) ==
    Frac(SumOver(Col(out.df, "bays_booked"), S), SumOver(Col(out.df, "capacity"), S))

Idx(df) == 1..Len(df)

\* the records of out.df that belong to a group
HourMembers(h) ==
    {i \in Idx(out.df) : out.df[i].location = h.location /\ out.df[i].start_dt = h.start_dt}

DayMembers(d) ==
    {i \in Idx(out.df) : /\ out.df[i].location = d.location
                         /\ dt_date(out.df[i].start_dt) = d.date_local}

DowMembers(w) ==
    {i \in Idx(out.df) : /\ out.df[i].location = w.location
                         /\ dt_day_name(out.df[i].start_dt) = w.dow}

SeasonMembers(z) ==
    {i \in Idx(out.df) : /\ out.df[i].location = z.location
                         /\ classify_season(dt_date(out.df[i].start_dt).m) = z.season}

\* the day rows that belong to a day-of-week or season group
DowDays(w) ==
    {i \in Idx(out.df_day) : out.df_day[i].location = w.location /\ out.df_day[i].dow = w.dow}

SeasonDays(z) ==
    {i \in Idx(out.df_day) : /\ out.df_day[i].location = z.location
                             /\ out.df_day[i].season = z.season}

\* C2 as stated: every record that reaches aggregation has
\* 0 <= booked <= capacity.
C2_BookedWithinCapacity ==
    pc = "done" =>
        \A i \in Idx(out.df) :
            0 <= out.df[i].bays_booked /\ out.df[i].bays_booked <= out.df[i].capacity

\* C3 as stated: at the hour, day, day-of-week and season level the
\* utilisation is sum(booked) / sum(capacity) over the group's records.
C3_PooledAtEveryLevel ==
    pc = "done" =>
        /\ \A g \in Idx(out.df_hour) :
              out.df_hour[g].utilisation = PooledUtilisation(HourMembers(out.df_hour[g]))
        /\ \A g \in Idx(out.df_day) :
              out.df_day[g].utilisation = PooledUtilisation(DayMembers(out.df_day[g]))
        /\ \A g \in Idx(out.dow_avg) :
              out.dow_avg[g].avg_utilisation = PooledUtilisation(DowMembers(out.dow_avg[g]))
        /\ \A g \in Idx(out.season_avg) :
              out.season_avg[g].utilisation = PooledUtilisation(SeasonMembers(out.season_avg[g]))

\* C3 amended: at the hour and the day level the utilisation is
\* sum(booked) / sum(capacity) over the group's records; at the day-of-week
\* and the season level it is the mean of the utilisations of the group's
\* days (NaN for a season with no day).
C3_PooledPerHourAndDay ==
    pc = "done" =>
        /\ \A g \in Idx(out.df_hour) :
              /\ HourMembers(out.df_hour[g]) # {}
              /\ out.df_hour[g].utilisation = PooledUtilisation(HourMembers(out.df_hour[g]))
        /\ \A g \in Idx(out.df_day) :
              /\ DayMembers(out.df_day[g]) # {}
              /\ out.df_day[g].utilisation = PooledUtilisation(DayMembers(out.df_day[g]))
        /\ \A g \in Idx(out.dow_avg) :
              /\ DowDays(out.dow_avg[g]) # {}
              /\ out.dow_avg[g].avg_utilisation =
                    MeanOver(Col(out.df_day, "utilisation"), DowDays(out.dow_avg[g]))
        /\ \A g \in Idx(out.season_avg) :
              out.season_avg[g].utilisation =
                    MeanOver(Col(out.df_day, "utilisation"), SeasonDays(out.season_avg[g]))

\* a day of two hours with capacities 4 and 2: pooled 3/6, while the mean of
\* the hours' utilisations would be 5/8
C3_Witness ==
    /\ pc = "done"
    /\ \E g \in Idx(out.df_day) :
         /\ Cardinality(DayMembers(out.df_day[g])) = 2
         /\ out.df_day[g].hours_offered = 6
         /\ out.df_day[g].hours_sold = 3
         /\ out.df_day[g].utilisation = <<1, 2>>

\* C4: every (location, timestamp) of the records is the key of exactly one
\* hour row, every hour row has records, and the row's capacity and booked
\* values are the sums over all records with its key; capacities 4 and 4
\* with booked 1 and 3 give capacity 8, booked 4, utilisation 1/2.
C4_HourRowsSumTheirRecords ==
    pc = "done" =>
        /\ \A i \in Idx(out.df) :
              Cardinality({g \in Idx(out.df_hour) : i \in HourMembers(out.df_hour[g])}) = 1
        /\ \A g, k \in Idx(out.df_hour) :
              (out.df_hour[g].location = out.df_hour[k].location
                 /\ out.df_hour[g].start_dt = out.df_hour[k].start_dt) => g = k
        /\ \A g \in Idx(out.df_hour) :
              LET S == HourMembers(out.df_hour[g])
              IN  /\ S # {}
                  /\ out.df_hour[g].bay_hours_offered = SumOver(Col(out.df, "capacity"), S)
                  /\ out.df_hour[g].bay_hours_sold = SumOver(Col(out.df, "bays_booked"), S)
        /\ (/\ Len(rows) = 2
            /\ rows[1].location = rows[2].location
            /\ rows[1].start_datetime = rows[2].start_datetime
            /\ <<rows[1].capacity, rows[1].available_spot_count>> = <<4, 3>>
            /\ <<rows[2].capacity, rows[2].available_spot_count>> = <<4, 1>>)
           => /\ Len(out.df_hour) = 1
              /\ out.df_hour[1].bay_hours_offered = 8
              /\ out.df_hour[1].bay_hours_sold = 4
              /\ out.df_hour[1].utilisation = <<1, 2>>

C4_Witness ==
    /\ pc = "done"
    /\ Len(rows) = 2
    /\ rows[1].location = rows[2].location
    /\ rows[1].start_datetime = rows[2].start_datetime
    /\ <<rows[1].capacity, rows[1].available_spot_count>> = <<4, 3>>
    /\ <<rows[2].capacity, rows[2].available_spot_count>> = <<4, 1>>
    /\ Len(out.df_hour) = 1
    /\ out.df_hour[1].bay_hours_offered = 8

\* C6 as stated: a failed fetch does not abort the run; when the run has
\* ended, the records of the pages that were fetched are in the tables.
C6_FetchedPagesAreReported ==
    (pc # "fetch" /\ rows # <<>>) => (pc = "done" /\ out.df_hour # <<>>)

\* rows in another order
Permuted(raw, p) == [i \in 1..Len(raw) |-> raw[p[i]]]

DateRank(date) == <<date.y, date.m, date.d>>

WeekdayNumber(dow) ==
    CASE dow = "Monday" -> 1 [] dow = "Tuesday" -> 2 [] dow = "Wednesday" -> 3
      [] dow = "Thursday" -> 4 [] dow = "Friday" -> 5 [] dow = "Saturday" -> 6
      [] dow = "Sunday" -> 7

\* C7: the hour, day and day-of-week tables are the same for every order of
\* the records, and their rows are in key order: by location and instant,
\* by location and date, by location and Monday ... Sunday.
C7_OrderIndependent ==
    pc = "done" =>
        /\ \A p \in Permutations(1..Len(rows)) :
              LET t == main_tables(Permuted(rows, p))
              IN  /\ t.df_hour = out.df_hour
                  /\ t.df_day = out.df_day
                  /\ t.dow_avg = out.dow_avg
        /\ \A g \in 1..(Len(out.df_hour) - 1) :
              LexLess(<<LocRank(out.df_hour[g].location), out.df_hour[g].start_dt.utc>>,
                      <<LocRank(out.df_hour[g + 1].location), out.df_hour[g + 1].start_dt.utc>>)
        /\ \A g \in 1..(Len(out.df_day) - 1) :
              LexLess(<<LocRank(out.df_day[g].location)>> \o DateRank(out.df_day[g].date_local),
                      <<LocRank(out.df_day[g + 1].location)>>
                         \o DateRank(out.df_day[g + 1].date_local))
        /\ \A g \in 1..(Len(out.dow_avg) - 1) :
              LexLess(<<LocRank(out.dow_avg[g].location), WeekdayNumber(out.dow_avg[g].dow)>>,
                      <<LocRank(out.dow_avg[g + 1].location),
                        WeekdayNumber(out.dow_avg[g + 1].dow)>>)

\* a Monday record fetched before the record of an earlier Friday
C7_Witness ==
    /\ pc = "done"
    /\ Len(rows) = 2
    /\ rows[1].location = rows[2].location
    /\ rows[1].start_datetime = [y |-> 2022, m |-> 12, d |-> 5, h |-> 15]
    /\ rows[2].start_datetime = [y |-> 2022, m |-> 11, d |-> 25, h |-> 15]
    /\ Len(out.df_hour) = 2
    /\ out.df_hour[1].start_dt.utc < out.df_hour[2].start_dt.utc
    /\ Len(out.dow_avg) = 2
    /\ out.dow_avg[1].dow = "Monday"
    /\ out.dow_avg[2].dow = "Friday"

SeasonByMonth ==
    <<"Winter", "Winter", "Spring", "Spring", "Spring", "Summer",
      "Summer", "Summer", "Fall", "Fall", "Fall", "Winter">>

\* the Eastern calendar date of each start, from the calendar
EasternDate(iso) ==
    CASE iso = [y |-> 2022, m |-> 11, d |-> 28, h |-> 15] -> [y |-> 2022, m |-> 11, d |-> 28]
      [] iso = [y |-> 2022, m |-> 11, d |-> 28, h |-> 16] -> [y |-> 2022, m |-> 11, d |-> 28]
      [] iso = [y |-> 2022, m |-> 12, d |-> 1,  h |-> 3]  -> [y |-> 2022, m |-> 11, d |-> 30]
      [] iso = [y |-> 2022, m |-> 12, d |-> 5,  h |-> 15] -> [y |-> 2022, m |-> 12, d |-> 5]
      [] iso = [y |-> 2022, m |-> 11, d |-> 25, h |-> 15] -> [y |-> 2022, m |-> 11, d |-> 25]
      [] iso = [y |-> 2023, m |-> 6,  d |-> 1,  h |-> 4]  -> [y |-> 2023, m |-> 6,  d |-> 1]

\* C10: the season is a function of the month alone (12, 1, 2 Winter; 3, 4,
\* 5 Spring; 6, 7, 8 Summer; 9, 10, 11 Fall), and the month is that of the
\* record's Eastern date: every record's Eastern date is a day row of its
\* location, and every day row carries the season of its date's month.
C10_SeasonOfLocalMonth ==
    /\ \A m \in 1..12 : classify_season(m) = SeasonByMonth[m]
    /\ pc = "done" =>
        /\ \A i \in Idx(rows) :
              \E g \in Idx(out.df_day) :
                 /\ out.df_day[g].location = rows[i].location
                 /\ out.df_day[g].date_local = EasternDate(rows[i].start_datetime)
        /\ \A g \in Idx(out.df_day) :
              /\ out.df_day[g].season = SeasonByMonth[out.df_day[g].date_local.m]
              /\ \E i \in Idx(rows) :
                    /\ out.df_day[g].location = rows[i].location
                    /\ out.df_day[g].date_local = EasternDate(rows[i].start_datetime)

\* a record of 1 December 03:00 UTC counted in the Fall, on 30 November
C10_Witness ==
    /\ pc = "done"
    /\ Len(rows) = 1
    /\ rows[1].start_datetime = [y |-> 2022, m |-> 12, d |-> 1, h |-> 3]
    /\ out.df_day[1].date_local = [y |-> 2022, m |-> 11, d |-> 30]
    /\ out.df_day[1].season = "Fall"
    /\ out.season_avg[4].season = "Fall"
    /\ out.season_avg[4].utilisation # "NaN"

====
